---- MODULE Spec2Model ----
(***************************************************************************)
(* Calendar periods of ledger's times.h: durations, date specifiers, date  *)
(* ranges, the specifier-or-range variant and the date interval engine.    *)
(*                                                                         *)
(* A date_t is its day number (the count boost::gregorian keeps), so that  *)
(* date comparison is integer comparison.  optional<date_t> is a day       *)
(* number or None; an optional of a structured value is the empty tuple or *)
(* a one-element tuple.  An operation that throws yields Fail.             *)
(***************************************************************************)
EXTENDS Integers, Sequences, FiniteSets, TLC

VARIABLES
  range,            \* date_interval_t::range, optional<date_specifier_or_range_t>
  start,            \* date_interval_t::start
  finish,           \* date_interval_t::finish
  aligned,          \* date_interval_t::aligned
  next,             \* date_interval_t::next
  duration,         \* date_interval_t::duration, optional<date_duration_t>
  end_of_duration,  \* date_interval_t::end_of_duration
  start_of_week,    \* the process-wide start_of_week setting
  phase,            \* "new" before parse(), "ready" after it
  steps,            \* operations applied so far (bounded by MaxSteps)
  last,             \* the last interval operation: its name, argument and result
  sor,              \* a date_specifier_or_range_t under construction/query
  qry               \* the last begin/end/is_within query and its answers

vars == <<range, start, finish, aligned, next, duration, end_of_duration,
          start_of_week, phase, steps, last, sor, qry>>

ivars == <<range, start, finish, aligned, next, duration, end_of_duration,
           phase, steps, last>>

qvars == <<sor, qry>>

(***************************************************************************)
(* Bounds of the model.                                                    *)
(***************************************************************************)
FirstYear == 2020
NumYears == 2
MaxLen == 2
MaxSteps == 3

Years == FirstYear .. (FirstYear + NumYears - 1)
Months == {2, 3}
Days == {10, 29}
Lengths == 0 .. MaxLen

(***************************************************************************)
(* optional<>'s none, and the outcome of a resolution that throws.         *)
(***************************************************************************)
None == -1
Fail == -2

(***************************************************************************)
(* Calendar primitives (boost::gregorian), by day number.                  *)
(***************************************************************************)
IsLeapYear(y) == (y % 4 = 0) /\ ((y % 100 # 0) \/ (y % 400 = 0))

EndOfMonthDay(y, m) ==
  CASE m \in {1, 3, 5, 7, 8, 10, 12} -> 31
    [] m \in {4, 6, 9, 11} -> 30
    [] OTHER -> IF IsLeapYear(y) THEN 29 ELSE 28

DayNumber(y, m, d) ==
  LET a  == (14 - m) \div 12
      yy == y + 4800 - a
      mm == m + 12 * a - 3
  IN  d + ((153 * mm + 2) \div 5) + 365 * yy + (yy \div 4) - (yy \div 100)
        + (yy \div 400) - 32045

YMD(n) ==
  LET a == n + 32044
      b == (4 * a + 3) \div 146097
      c == a - ((146097 * b) \div 4)
      d == (4 * c + 3) \div 1461
      e == c - ((1461 * d) \div 4)
      m == (5 * e + 2) \div 153
  IN  [year  |-> 100 * b + d - 4800 + (m \div 10),
       month |-> m + 3 - 12 * (m \div 10),
       day   |-> e - ((153 * m + 2) \div 5) + 1]

YearOf(n) == YMD(n).year

\* 0 = Sunday .. 6 = Saturday
DayOfWeek(n) ==
  LET ymd == YMD(n)
      a   == (14 - ymd.month) \div 12
      y   == ymd.year - a
      m   == ymd.month + 12 * a - 2
  IN  (ymd.day + y + (y \div 4) - (y \div 100) + (y \div 400)
         + ((31 * m) \div 12)) % 7

\* gregorian::date(y, m, d): throws when the day is not in the month
MakeDate(y, m, d) ==
  IF d >= 1 /\ d <= EndOfMonthDay(y, m) THEN DayNumber(y, m, d) ELSE Fail

AddDays(n, k) == n + k

\* date + gregorian::months(k), k >= 0: a last day of month stays a last
\* day of month, any other day is clamped to the length of the new month
AddMonths(n, k) ==
  LET ymd  == YMD(n)
      idx  == (ymd.month - 1) + k
      y2   == ymd.year + (idx \div 12)
      m2   == (idx % 12) + 1
      eom2 == EndOfMonthDay(y2, m2)
  IN  IF ymd.day = EndOfMonthDay(ymd.year, ymd.month)
        THEN DayNumber(y2, m2, eom2)
        ELSE DayNumber(y2, m2, IF ymd.day > eom2 THEN eom2 ELSE ymd.day)

AddYears(n, k) == AddMonths(n, 12 * k)

(***************************************************************************)
(* date_duration_t                                                         *)
(***************************************************************************)
Quanta == {"DAYS", "WEEKS", "MONTHS", "QUARTERS", "YEARS"}

MkDuration(q, len) == [quantum |-> q, length |-> len]

\* date_duration_t(): quantum(DAYS), length(0)
DefaultDuration == MkDuration("DAYS", 0)

add_AsSubtract(d, date) ==
  CASE d.quantum = "DAYS"     -> AddDays(date, -d.length)
    [] d.quantum = "WEEKS"    -> AddDays(date, -7 * d.length)
    [] d.quantum = "MONTHS"   -> AddMonths(date, -d.length)
    [] d.quantum = "QUARTERS" -> AddMonths(date, -d.length * 3)
    [] d.quantum = "YEARS"    -> AddYears(date, -d.length)

add_ZeroLength(d, date) ==
  CASE d.quantum = "DAYS"     -> AddDays(date, 0)
    [] d.quantum = "WEEKS"    -> AddDays(date, 0)
    [] d.quantum = "MONTHS"   -> AddMonths(date, 0)
    [] d.quantum = "QUARTERS" -> AddMonths(date, 0)
    [] d.quantum = "YEARS"    -> AddYears(date, 0)

add(d, date) ==
  CASE d.quantum = "DAYS"     -> AddDays(date, d.length)
    [] d.quantum = "WEEKS"    -> AddDays(date, 7 * d.length)
    [] d.quantum = "MONTHS"   -> AddMonths(date, d.length)
    [] d.quantum = "QUARTERS" -> AddMonths(date, d.length * 3)
    [] d.quantum = "YEARS"    -> AddYears(date, d.length)

\* The canonical boundary of the quantum at or before the date.
find_nearest(date, skip) ==
  LET ymd == YMD(date)
  IN  CASE skip = "DAYS"     -> date
        [] skip = "WEEKS"    -> date - ((DayOfWeek(date) - start_of_week + 7) % 7)
        [] skip = "MONTHS"   -> DayNumber(ymd.year, ymd.month, 1)
        [] skip = "QUARTERS" ->
             DayNumber(ymd.year, 3 * ((ymd.month - 1) \div 3) + 1, 1)
        [] skip = "YEARS"    -> DayNumber(ymd.year, 1, 1)

(***************************************************************************)
(* date_specifier_t                                                        *)
(***************************************************************************)
MkSpecifier(y, m, d, w) == [year |-> y, month |-> m, day |-> d, wday |-> w]

\* The earliest date matching the fields present; a specifier without a
\* year needs the disambiguation year, and fails without it.
SpecifierBegin(s, current_year) ==
  IF s.year = None /\ current_year = None
    THEN Fail
    ELSE MakeDate(IF s.year # None THEN s.year ELSE current_year,
                  IF s.month # None THEN s.month ELSE 1,
                  IF s.day # None THEN s.day ELSE 1)

\* One past the latest date matching the fields present.
SpecifierEnd(s, current_year) ==
  LET b == SpecifierBegin(s, current_year)
  IN  IF b = Fail THEN Fail
      ELSE IF s.day # None \/ s.wday # None THEN AddDays(b, 1)
      ELSE IF s.month # None THEN AddMonths(b, 1)
      ELSE IF s.year # None THEN AddYears(b, 1)
      ELSE Fail

SpecifierIsWithin(s, date, current_year) ==
  date >= SpecifierBegin(s, current_year) /\ date < SpecifierEnd(s, current_year)

implied_duration(s) ==
  IF s.day # None \/ s.wday # None THEN <<MkDuration("DAYS", 1)>>
  ELSE IF s.month # None THEN <<MkDuration("MONTHS", 1)>>
  ELSE IF s.year # None THEN <<MkDuration("YEARS", 1)>>
  ELSE << >>

(***************************************************************************)
(* date_range_t                                                            *)
(***************************************************************************)
\* date_range_t(range_begin, range_end): end_inclusive(false)
MkRange(lower, upper) ==
  [range_begin |-> lower, range_end |-> upper, end_inclusive |-> FALSE]

\* date_parser_t (a friend) also sets end_inclusive
ParsedRange(lower, upper, incl) ==
  [range_begin |-> lower, range_end |-> upper, end_inclusive |-> incl]

RangeBegin(r, current_year) ==
  IF Len(r.range_begin) > 0
    THEN SpecifierBegin(r.range_begin[1], current_year)
    ELSE None

RangeEnd_IgnoreInclusive(r, current_year) ==
  IF Len(r.range_end) > 0
    THEN SpecifierBegin(r.range_end[1], current_year)
    ELSE None

RangeEnd(r, current_year) ==
  IF Len(r.range_end) > 0
    THEN IF r.end_inclusive
           THEN SpecifierEnd(r.range_end[1], current_year)
           ELSE SpecifierBegin(r.range_end[1], current_year)
    ELSE None

RangeIsWithin(r, date, current_year) ==
  LET b == RangeBegin(r, current_year)
      e == RangeEnd(r, current_year)
      after_begin == IF b # None THEN date >= b ELSE TRUE
      before_end  == IF e # None THEN date < e ELSE TRUE
  IN  after_begin /\ before_end

(***************************************************************************)
(* date_specifier_or_range_t: variant<int, date_specifier_t, date_range_t> *)
(***************************************************************************)
\* date_specifier_or_range_t(): the variant default-constructs its first
\* alternative, int
SorDefault == [tag |-> "int", spec |-> << >>, rng |-> << >>]

SorFromSpecifier_AsDefault(s) == [tag |-> "int", spec |-> << >>, rng |-> << >>]

SorFromSpecifier(s) == [tag |-> "specifier", spec |-> <<s>>, rng |-> << >>]

SorFromRange(r) == [tag |-> "range", spec |-> << >>, rng |-> <<r>>]

SorBegin_UsesEnd(v, current_year) ==
  IF v.tag = "specifier" THEN SpecifierEnd(v.spec[1], current_year)
  ELSE IF v.tag = "range" THEN RangeBegin(v.rng[1], current_year)
  ELSE None

SorBegin(v, current_year) ==
  IF v.tag = "specifier" THEN SpecifierBegin(v.spec[1], current_year)
  ELSE IF v.tag = "range" THEN RangeBegin(v.rng[1], current_year)
  ELSE None

SorEnd_SpecifierBegin(v, current_year) ==
  IF v.tag = "specifier" THEN SpecifierBegin(v.spec[1], current_year)
  ELSE IF v.tag = "range" THEN RangeEnd(v.rng[1], current_year)
  ELSE None

SorEnd(v, current_year) ==
  IF v.tag = "specifier" THEN SpecifierEnd(v.spec[1], current_year)
  ELSE IF v.tag = "range" THEN RangeEnd(v.rng[1], current_year)
  ELSE None

\* Containment, dispatched to the variant held.
SorIsWithin(v, date, current_year) ==
  IF v.tag = "specifier" THEN SpecifierIsWithin(v.spec[1], date, current_year)
  ELSE IF v.tag = "range" THEN RangeIsWithin(v.rng[1], date, current_year)
  ELSE TRUE

(***************************************************************************)
(* Inputs: the specifiers, ranges, durations and dates the operations are  *)
(* applied to.                                                             *)
(***************************************************************************)
OptYears == Years \cup {None}

\* year; year-month; year-month-day; month; month-day
Specifiers ==
  {MkSpecifier(y, None, None, None) : y \in Years}
    \cup {MkSpecifier(y, m, None, None) : y \in {FirstYear + 1, None}, m \in Months}
    \cup {MkSpecifier(y, m, d, None) :
            y \in {FirstYear + 1, None}, m \in Months, d \in Days}

BoundSpecifiers ==
  {MkSpecifier(FirstYear, None, None, None),
   MkSpecifier(FirstYear + 1, None, None, None),
   MkSpecifier(FirstYear + 1, 3, 10, None)}

OptBounds == {<< >>} \cup {<<s>> : s \in BoundSpecifiers}

Ranges ==
  {MkRange(l, u) : l \in OptBounds, u \in OptBounds}
    \cup {ParsedRange(l, u, TRUE) : l \in OptBounds, u \in OptBounds}

Windows == {SorFromSpecifier(s) : s \in Specifiers}
             \cup {SorFromRange(r) : r \in Ranges}

Durations ==
  {DefaultDuration} \cup {MkDuration(q, len) : q \in Quanta, len \in Lengths}

QueryDates == {DayNumber(y, m, d) : y \in Years, m \in {1, 3, 4}, d \in {1, 10, 11}}

(***************************************************************************)
(* Queries on a date_specifier_or_range_t and on the date_range_t it may   *)
(* hold.  A query records the object asked, the arguments and the answers; *)
(* threw is set when resolving a specifier failed.  Each behaviour builds  *)
(* one object and asks it one query.                                       *)
(***************************************************************************)
NoQuery ==
  [kind |-> "none", obj |-> SorDefault, date |-> None, cy |-> None,
   threw |-> FALSE, begin |-> None, end |-> None, within |-> FALSE]

Answer(kind, v, date, cy, b, e, w) ==
  IF b = Fail \/ e = Fail
    THEN [kind |-> kind, obj |-> v, date |-> date, cy |-> cy,
          threw |-> TRUE, begin |-> None, end |-> None, within |-> FALSE]
    ELSE [kind |-> kind, obj |-> v, date |-> date, cy |-> cy,
          threw |-> FALSE, begin |-> b, end |-> e, within |-> w]

SorAnswer(v, date, cy) ==
  Answer("sor", v, date, cy, SorBegin(v, cy), SorEnd(v, cy),
         SorIsWithin(v, date, cy))

RangeAnswer(v, date, cy) ==
  Answer("range", v, date, cy, RangeBegin(v.rng[1], cy), RangeEnd(v.rng[1], cy),
         RangeIsWithin(v.rng[1], date, cy))

\* No object constructed yet.
Unconstructed == [how |-> "none", val |-> SorDefault]

ConstructDefault ==
  /\ sor.how = "none"
  /\ sor' = [how |-> "default", val |-> SorDefault]
  /\ UNCHANGED <<ivars, start_of_week, qry>>

ConstructFromSpecifier ==
  \E s \in Specifiers :
    /\ sor.how = "none"
    /\ sor' = [how |-> "specifier", val |-> SorFromSpecifier(s)]
    /\ UNCHANGED <<ivars, start_of_week, qry>>

ConstructFromRange ==
  \E r \in Ranges :
    /\ sor.how = "none"
    /\ sor' = [how |-> "range", val |-> SorFromRange(r)]
    /\ UNCHANGED <<ivars, start_of_week, qry>>

QuerySor ==
  \E date \in QueryDates, cy \in OptYears :
    /\ sor.how # "none"
    /\ qry.kind = "none"
    /\ qry' = SorAnswer(sor.val, date, cy)
    /\ UNCHANGED <<ivars, start_of_week, sor>>

QueryRange ==
  \E date \in QueryDates, cy \in OptYears :
    /\ sor.how # "none"
    /\ qry.kind = "none"
    /\ sor.val.tag = "range"
    /\ qry' = RangeAnswer(sor.val, date, cy)
    /\ UNCHANGED <<ivars, start_of_week, sor>>

(***************************************************************************)
(* The interval engine's state after date_interval_t().                    *)
(***************************************************************************)
NoOp == [op |-> "none", arg |-> None, ret |-> "none", from |-> None]

IntervalInit ==
  /\ range = << >>
  /\ start = None
  /\ finish = None
  /\ aligned = FALSE
  /\ next = None
  /\ duration = << >>
  /\ end_of_duration = None
  /\ phase = "new"
  /\ steps = 0
  /\ last = NoOp

QueryInit ==
  /\ sor = Unconstructed
  /\ qry = NoQuery

(***************************************************************************)
(* date_interval_t                                                         *)
(***************************************************************************)
is_valid_Inverted(s) == s = None

is_valid(s) == s # None

IntervalBegin_WindowOnly(current_year) ==
  IF Len(range) > 0 THEN SorBegin(range[1], current_year) ELSE None

IntervalBegin(current_year) ==
  IF start # None THEN start
  ELSE IF Len(range) > 0 THEN SorBegin(range[1], current_year)
  ELSE None

IntervalEnd_WindowOnly(current_year) ==
  IF Len(range) > 0 THEN SorEnd(range[1], current_year) ELSE None

IntervalEnd(current_year) ==
  IF finish # None THEN finish
  ELSE IF Len(range) > 0 THEN SorEnd(range[1], current_year)
  ELSE None

resolve_end_Stale(s, d, e) ==
  IF e # None THEN e
  ELSE IF s # None /\ Len(d) > 0 THEN add(d[1], s) ELSE e

\* end_of_duration recomputed from start and duration
resolve_end(s, d, e) ==
  IF s # None /\ Len(d) > 0 THEN add(d[1], s) ELSE e

\* The interval has a start, a duration and the end of the current step.
Stabilized == start # None /\ Len(duration) > 0 /\ end_of_duration # None

\* The duration given, else the one a specifier window implies.
EffectiveDuration ==
  IF Len(duration) = 0 /\ Len(range) > 0 /\ range[1].tag = "specifier"
    THEN implied_duration(range[1].spec[1])
    ELSE duration

\* from: the start the operation found
Op(name, arg, ret) == [op |-> name, arg |-> arg, ret |-> ret, from |-> start]

RefDates == {None, DayNumber(FirstYear, 6, 15)}

OptWindows == {<< >>} \cup {<<w>> : w \in Windows}
OptDurations == {<< >>} \cup {<<d>> : d \in Durations}

\* parse(str): the grammar yields the window and the duration
Parse ==
  \E w \in OptWindows, d \in OptDurations :
    /\ phase = "new"
    /\ phase' = "ready"
    /\ range' = w
    /\ duration' = d
    /\ last' = Op("parse", None, "ok")
    /\ UNCHANGED <<start, finish, aligned, next, end_of_duration, steps,
                   start_of_week, qvars>>

Unchanged == UNCHANGED <<range, start, finish, aligned, next, duration,
                         end_of_duration>>

\* stabilize(date): resolve the window into start and finish, derive a
\* missing duration from a specifier window, snap start back to the
\* boundary of the duration's quantum, and compute end_of_duration.
StabilizeBody(ref) ==
  LET cy   == IF ref = None THEN None ELSE YearOf(ref)
      b    == IF Len(range) > 0 THEN SorBegin(range[1], cy) ELSE None
      e    == IF Len(range) > 0 THEN SorEnd(range[1], cy) ELSE None
      dur  == EffectiveDuration
      s1   == IF b # None THEN b ELSE start
      snap == Len(dur) > 0 /\ s1 # None
      s2   == IF snap THEN find_nearest(s1, dur[1].quantum) ELSE s1
      eod  == resolve_end(s2, dur, end_of_duration)
  IN  IF b = Fail \/ e = Fail \/ (b # None /\ e # None /\ b > e)
        THEN /\ last' = Op("stabilize", ref, "malformed")
             /\ Unchanged
        ELSE /\ start' = s2
             /\ finish' = (IF e # None THEN e ELSE finish)
             /\ duration' = dur
             /\ aligned' = (IF snap THEN TRUE ELSE aligned)
             /\ end_of_duration' = eod
             /\ next' = eod
             /\ range' = range
             /\ last' = Op("stabilize", ref, "ok")

Stabilize ==
  \E ref \in RefDates :
    /\ phase = "ready"
    /\ steps < MaxSteps
    /\ steps' = steps + 1
    /\ StabilizeBody(ref)
    /\ UNCHANGED <<phase, start_of_week, qvars>>

ResolveEnd ==
  /\ phase = "ready"
  /\ end_of_duration' = resolve_end(start, duration, end_of_duration)
  /\ next' = end_of_duration'
  /\ UNCHANGED <<range, start, finish, aligned, duration, phase, steps,
                 last, start_of_week, qvars>>

\* An advance to a period that ends after finish is out of bounds.
OutOfBounds(new_start, new_end, fin) == fin # None /\ new_end > fin

\* operator++: start = end_of_duration, then resolve_end(); rejected, with
\* the interval left as it is, when the new period is out of bounds.
AdvanceBody ==
  IF ~is_valid(start) \/ ~Stabilized
    THEN /\ last' = Op("advance", None, "malformed")
         /\ Unchanged
    ELSE LET new_start == end_of_duration
             new_end   == resolve_end(new_start, duration, None)
         IN  IF OutOfBounds(new_start, new_end, finish)
               THEN /\ last' = Op("advance", None, "out_of_bounds")
                    /\ Unchanged
               ELSE /\ start' = new_start
                    /\ end_of_duration' = new_end
                    /\ next' = new_end
                    /\ last' = Op("advance", None, "ok")
                    /\ UNCHANGED <<range, finish, aligned, duration>>

Advance ==
  /\ phase = "ready"
  /\ steps < MaxSteps
  /\ steps' = steps + 1
  /\ AdvanceBody
  /\ UNCHANGED <<phase, start_of_week, qvars>>

\* The start of the period of the sequence anchor, add(anchor), ... that
\* contains date (anchor <= date, length >= 1).  The anchor lies on a
\* boundary of the quantum, so k steps of d land where one step of k * d
\* does; k is found from the distance in days or in months.
Nth(anchor, d, k) == add(MkDuration(d.quantum, k * d.length), anchor)

StepsTo(anchor, date, d) ==
  LET a == YMD(anchor)
      t == YMD(date)
      months == (t.year * 12 + t.month) - (a.year * 12 + a.month)
  IN  CASE d.quantum = "DAYS"     -> (date - anchor) \div d.length
        [] d.quantum = "WEEKS"    -> (date - anchor) \div (7 * d.length)
        [] d.quantum = "MONTHS"   -> months \div d.length
        [] d.quantum = "QUARTERS" -> months \div (3 * d.length)
        [] d.quantum = "YEARS"    -> months \div (12 * d.length)

Walk(anchor, date, d) ==
  LET k == StepsTo(anchor, date, d)
  IN  IF Nth(anchor, d, k) > date THEN Nth(anchor, d, k - 1)
      ELSE Nth(anchor, d, k)

\* find_period(date): false, with the interval left as it is, when date is
\* outside the interval's bounds or no period can contain it; otherwise the
\* interval is moved to the aligned period containing date.
FindPeriodBody(date) ==
  LET cy  == YearOf(date)
      b   == IntervalBegin(cy)
      e   == IntervalEnd(cy)
      dur == EffectiveDuration
  IN  IF b = Fail \/ e = Fail \/ Len(dur) = 0
        THEN /\ last' = Op("find_period", None, "malformed")
             /\ Unchanged
      ELSE IF (b # None /\ date < b) \/ (e # None /\ date >= e)
                \/ dur[1].length < 1
        THEN /\ last' = Op("find_period", None, "false")
             /\ Unchanged
      ELSE LET anchor == IF start # None THEN start
                         ELSE IF b # None THEN find_nearest(b, dur[1].quantum)
                         ELSE find_nearest(date, dur[1].quantum)
               s      == Walk(anchor, date, dur[1])
               eod    == resolve_end(s, dur, None)
           IN  /\ start' = s
               /\ end_of_duration' = eod
               /\ next' = eod
               /\ duration' = dur
               /\ aligned' = TRUE
               /\ last' = Op("find_period", None, "true")
               /\ UNCHANGED <<range, finish>>

ProbeDates ==
  {DayNumber(FirstYear + 1, 3, 9)}
    \cup (IF start # None THEN {start - 1} ELSE {})
    \cup (IF end_of_duration # None
            THEN {end_of_duration - 1, end_of_duration} ELSE {})
    \cup (IF finish # None THEN {finish} ELSE {})

FindPeriod ==
  \E date \in ProbeDates :
    /\ phase = "ready"
    /\ steps < MaxSteps
    /\ steps' = steps + 1
    /\ FindPeriodBody(date)
    /\ UNCHANGED <<phase, start_of_week, qvars>>

Next ==
  \/ Parse
  \/ Stabilize
  \/ ResolveEnd
  \/ FindPeriod
  \/ Advance

Init == IntervalInit /\ QueryInit /\ start_of_week \in {0, 1}

Spec == Init /\ [][Next]_vars

(***************************************************************************)
(* The report loop: parse, stabilize once, then advance until the advance  *)
(* is rejected.  The loop keeps calling operator++, hence the fairness.    *)
(* Only an interval without finish, which no advance ever rejects, is      *)
(* stopped by the bound on steps.                                          *)
(***************************************************************************)
LoopStabilize == last.op = "parse" /\ Stabilize

LoopAdvance ==
  /\ phase = "ready"
  /\ last.op \in {"stabilize", "advance"}
  /\ finish # None \/ steps < MaxSteps
  /\ steps' = (IF finish = None THEN steps + 1 ELSE steps)
  /\ AdvanceBody
  /\ UNCHANGED <<phase, start_of_week, qvars>>

NextLoop ==
  \/ Parse
  \/ LoopStabilize
  \/ LoopAdvance

SpecLoop == Init /\ [][NextLoop]_vars /\ WF_vars(LoopAdvance)

NextQuery ==
  \/ ConstructDefault
  \/ ConstructFromSpecifier
  \/ ConstructFromRange
  \/ QuerySor
  \/ QueryRange

InitQuery == IntervalInit /\ QueryInit /\ start_of_week = 0

SpecQuery == InitQuery /\ [][NextQuery]_vars


(***************************************************************************)
(* Properties of date_interval_t (Spec).                                   *)
(***************************************************************************)
Length == duration[1].length

AdvanceStep == last'.op = "advance" /\ steps' = steps + 1

FindStep(date) == phase = "ready" /\ steps' = steps + 1 /\ FindPeriodBody(date)

StabilizeStep(ref) == phase = "ready" /\ steps' = steps + 1 /\ StabilizeBody(ref)

\* C1: whenever the interval is stabilized (start, duration and
\* end_of_duration all defined), end_of_duration equals duration.add(start).
C1_EndOfDurationInvariant ==
  Stabilized => end_of_duration = add(duration[1], start)

C1_Witness ==
  /\ Stabilized
  /\ Length >= 1
  /\ last.op = "advance"
  /\ last.ret = "ok"
  /\ last.from # start
  /\ end_of_duration = add(duration[1], start)

\* C2 as stated: for a duration of any length >= 0, after each successful
\* advance the new start equals the previous end_of_duration and is
\* strictly greater than the previous start.
C2_ContiguousIncreasingAnyLength ==
  [][(AdvanceStep /\ last'.ret = "ok") =>
       (start' = end_of_duration /\ start' > start)]_vars

\* C2 amended: for a stabilized interval whose duration has length >= 1,
\* after each successful advance the new start equals the previous
\* end_of_duration and is strictly greater than the previous start, so the
\* windows [start, end_of_duration) are contiguous and strictly increasing.
C2_ContiguousIncreasing ==
  [][(AdvanceStep /\ last'.ret = "ok" /\ Length >= 1) =>
       (/\ start' = end_of_duration
        /\ start' > start
        /\ end_of_duration' > start')]_vars

C2_Witness ==
  /\ last.op = "advance"
  /\ last.ret = "ok"
  /\ Stabilized
  /\ Length >= 1
  /\ steps >= 3
  /\ start > last.from

\* C3: with a finish bound, an advance that would move the period past
\* finish reports OutOfBounds and leaves start, finish, duration and
\* end_of_duration as they were, and is_valid() stays true.
C3_RejectedAdvanceKeepsState ==
  [][(/\ AdvanceStep
      /\ \/ last'.ret = "out_of_bounds"
         \/ /\ Stabilized
            /\ finish # None
            /\ add(duration[1], end_of_duration) > finish)
       => (/\ last'.ret = "out_of_bounds"
           /\ finish # None
           /\ UNCHANGED <<start, finish, duration, end_of_duration>>
           /\ is_valid(start'))]_vars

C3_Witness ==
  /\ last.op = "advance"
  /\ last.ret = "out_of_bounds"
  /\ finish # None
  /\ Stabilized
  /\ start = last.from
  /\ add(duration[1], end_of_duration) > finish

LowerBound(cy) ==
  IF start # None THEN start
  ELSE IF Len(range) > 0 THEN SorBegin(range[1], cy) ELSE None

UpperBound(cy) ==
  IF finish # None THEN finish
  ELSE IF Len(range) > 0 THEN SorEnd(range[1], cy) ELSE None

Outside(date) ==
  LET b == LowerBound(YearOf(date))
      e == UpperBound(YearOf(date))
  IN  (b # None /\ date < b) \/ (e # None /\ date >= e)

Resolvable(date) ==
  LowerBound(YearOf(date)) # Fail /\ UpperBound(YearOf(date)) # Fail

HasBounds(date) ==
  LowerBound(YearOf(date)) # None \/ UpperBound(YearOf(date)) # None

WindowBegin(cy) ==
  IF Len(range) = 0 THEN None
  ELSE IF range[1].tag = "specifier" THEN SpecifierBegin(range[1].spec[1], cy)
  ELSE IF range[1].tag = "range" /\ Len(range[1].rng[1].range_begin) > 0
    THEN SpecifierBegin(range[1].rng[1].range_begin[1], cy)
  ELSE None

\* C6: for a duration with quantum in {Week, Month, Quarter, Year} and a
\* window beginning at D, stabilize yields a start that is a boundary of
\* the quantum at or before D: find_nearest(start, quantum) = start,
\* start <= D, and aligned is true.
C6_StabilizeAligns ==
  [][\A ref \in RefDates :
       LET D == WindowBegin(IF ref = None THEN None ELSE YearOf(ref))
       IN  (/\ StabilizeStep(ref)
            /\ last'.ret = "ok"
            /\ D \notin {None, Fail}
            /\ Len(duration') > 0
            /\ duration'[1].quantum \in {"WEEKS", "MONTHS", "QUARTERS", "YEARS"})
             => (/\ find_nearest(start', duration'[1].quantum) = start'
                 /\ start' <= D
                 /\ aligned')]_vars

\* Scenario B: two weeks, weeks starting on Monday, window beginning on
\* Wednesday 2021-03-10.
C6_Witness ==
  /\ start_of_week = 1
  /\ last.op = "stabilize"
  /\ last.ret = "ok"
  /\ duration = <<MkDuration("WEEKS", 2)>>
  /\ range = <<SorFromSpecifier(MkSpecifier(2021, 3, 10, None))>>
  /\ DayOfWeek(DayNumber(2021, 3, 10)) = 3
  /\ start = DayNumber(2021, 3, 8)
  /\ end_of_duration = DayNumber(2021, 3, 22)
  /\ aligned

(***************************************************************************)
(* Properties of the report loop (SpecLoop).                               *)
(***************************************************************************)
LoopStarted ==
  /\ last.op = "stabilize"
  /\ last.ret = "ok"
  /\ Stabilized
  /\ finish # None
  /\ Length >= 1

LoopRejected == last.op = "advance" /\ last.ret = "out_of_bounds"

\* C10: for a stabilized interval with a finish bound and a duration of
\* length >= 1, the loop that advances until OutOfBounds is reported
\* terminates: after finitely many steps the advance is rejected, and every
\* period an advance produced before that has start < finish.
C10_LoopTerminates ==
  /\ LoopStarted ~> LoopRejected
  /\ []((last.op = "advance" /\ last.ret = "ok" /\ finish # None /\ Length >= 1)
          => start < finish)

\* The loop was rejected after the period that ends exactly at finish.
C10_Witness ==
  /\ LoopRejected
  /\ Stabilized
  /\ Length >= 1
  /\ last.from = start
  /\ start < finish
  /\ end_of_duration = finish
  /\ start >= DayNumber(FirstYear + 1, 12, 1)

(***************************************************************************)
(* Properties of date_range_t and date_specifier_or_range_t (SpecQuery).   *)
(***************************************************************************)

\* C7: Range.end is absent without an upper bound, upper.end() when the
\* upper bound is inclusive and upper.begin() when it is exclusive, and
\* is_within(date) is true exactly when (no lower bound or date >=
\* lower.begin) and (no upper bound or date < that effective end).
C7_RangeEndAndWithin ==
  (qry.kind = "range" /\ ~qry.threw) =>
    LET r  == qry.obj.rng[1]
        lo == r.range_begin
        up == r.range_end
        effective_end ==
          IF Len(up) = 0 THEN None
          ELSE IF r.end_inclusive THEN SpecifierEnd(up[1], qry.cy)
          ELSE SpecifierBegin(up[1], qry.cy)
    IN  /\ qry.end = effective_end
        /\ qry.within =
             ((Len(lo) = 0 \/ qry.date >= SpecifierBegin(lo[1], qry.cy))
                /\ (Len(up) = 0 \/ qry.date < effective_end))

\* Scenario C: from year FirstYear to year FirstYear + 1, exclusive.
C7_Witness ==
  /\ qry.kind = "range"
  /\ ~qry.threw
  /\ qry.obj.rng[1] =
       ParsedRange(<<MkSpecifier(FirstYear, None, None, None)>>,
                   <<MkSpecifier(FirstYear + 1, None, None, None)>>, FALSE)
  /\ qry.begin = DayNumber(FirstYear, 1, 1)
  /\ qry.end = DayNumber(FirstYear + 1, 1, 1)
  /\ qry.date = DayNumber(FirstYear, 3, 10)
  /\ qry.within

\* C8: a SpecifierOrRange holding a Specifier s answers begin, end and
\* containment exactly as one holding the Range {lower = s, upper = s,
\* upper_inclusive = true}.
C8_SpecifierAsInclusiveRange ==
  (qry.kind = "sor" /\ qry.obj.tag = "specifier") =>
    LET s    == qry.obj.spec[1]
        twin == SorFromRange(ParsedRange(<<s>>, <<s>>, TRUE))
        ans  == SorAnswer(twin, qry.date, qry.cy)
    IN  /\ qry.threw = ans.threw
        /\ qry.begin = ans.begin
        /\ qry.end = ans.end
        /\ qry.within = ans.within

C8_Witness ==
  /\ qry.kind = "sor"
  /\ qry.obj = SorFromSpecifier(MkSpecifier(FirstYear + 1, 3, None, None))
  /\ ~qry.threw
  /\ qry.begin = DayNumber(FirstYear + 1, 3, 1)
  /\ qry.end = DayNumber(FirstYear + 1, 4, 1)
  /\ qry.date = DayNumber(FirstYear + 1, 3, 10)
  /\ qry.within

\* C9 as stated: every constructed SpecifierOrRange holds a Specifier or a
\* Range, and begin/end are never asked of the numeric placeholder.
C9_PlaceholderNeverPopulated ==
  /\ sor.how # "none" => sor.val.tag \in {"specifier", "range"}
  /\ qry.kind = "sor" => qry.obj.tag \in {"specifier", "range"}

\* C9 amended: a SpecifierOrRange built from a Specifier holds that
\* Specifier and one built from a Range holds that Range; the default
\* constructor is the only one that leaves the numeric placeholder, and
\* begin and end of such a value return none.
C9_PlaceholderOnlyByDefault ==
  /\ sor.how = "specifier" => (sor.val.tag = "specifier" /\ Len(sor.val.spec) = 1)
  /\ sor.how = "range" => (sor.val.tag = "range" /\ Len(sor.val.rng) = 1)
  /\ sor.how = "default" => sor.val.tag = "int"
  /\ (qry.kind = "sor" /\ qry.obj.tag = "int") =>
       (sor.how = "default" /\ ~qry.threw /\ qry.begin = None /\ qry.end = None)

C9_Witness ==
  /\ sor.how = "default"
  /\ qry.kind = "sor"
  /\ qry.obj.tag = "int"
  /\ qry.begin = None
  /\ qry.end = None

====
